---- MODULE Spec2Model ----
(***************************************************************************)
(* Model of bottom_feeder's scraper.py: the driver loop over article_urls, *)
(* fetch_and_store_article (fetch, extraction, dedupe check, persistence)  *)
(* and analyze_article (reply parsing), over the two tables of models.py.  *)
(*                                                                         *)
(* Python's None is modelled as the empty set and a present value x as the *)
(* singleton {x}; an id that is None is NoId.  Text is a sequence of       *)
(* characters (one-character or one-word strings).                         *)
(***************************************************************************)
EXTENDS Integers, Sequences, FiniteSets, TLC

VARIABLES
  articles,          \* rows of table articles (models.py 7-14)
  analysis_results,  \* rows of table analysis_results (models.py 16-23)
  session,           \* the shared session: "active", or "inactive" after a
                     \* commit failed and nothing rolled it back
  i,                 \* position of the driver's loop in article_urls
  out,               \* the lines the driver has printed in this run
  last,              \* record of the latest call of fetch_and_store_article
  pc                 \* "loop", or "crashed" when an exception left the loop

vars == <<articles, analysis_results, session, i, out, last, pc>>

\* ------------------------------------------------------------------ bounds
MaxParas == 2
MaxReplyLen == 2

\* --------------------------------------------------------------- constants
None == {}
NoId == 0

\* scraper.py 252-256: the literal URL list of the driver
article_urls == <<"url_708972a", "url_475919a">>

\* ---------------------------------------------------------------- helpers
Some(x) == {x}
The(s) == CHOOSE x \in s : TRUE

RECURSIVE LStrip(_)
LStrip(t) == IF t # <<>> /\ Head(t) = " " THEN LStrip(Tail(t)) ELSE t

RECURSIVE RStrip(_)
RStrip(t) ==
  IF t # <<>> /\ t[Len(t)] = " " THEN RStrip(SubSeq(t, 1, Len(t) - 1)) ELSE t

\* Tag.get_text(strip=True) on an element holding one text node
get_text(raw) == RStrip(LStrip(raw))

RECURSIVE join(_, _)
\* sep.join(list)
join(sep, list) ==
  IF list = <<>> THEN <<>>
  ELSE IF Len(list) = 1 THEN list[1]
  ELSE list[1] \o sep \o join(sep, Tail(list))

\* ----------------------------------------------------------- input spaces
RawTitles == { <<" ", "T1">>, <<"T2", " ">> }
RawDates == { <<"9Jan", " ">> }
RawParas == { <<" ", "A.">> }

SeqsUpTo(S, n) == UNION { [1..k -> S] : k \in 0..n }

\* A parsed page: what soup.find returns for each selector
Htmls ==
  [ h1 : {None} \cup { Some(t) : t \in RawTitles },
    date : {None} \cup { Some(d) : d \in RawDates },
    body : {None} \cup { Some(ps) : ps \in SeqsUpTo(RawParas, MaxParas) } ]

Fetches == { "ok", "http_error", "transport_error" }

Keys == { "company_name", "ceo_name", "summary" }
OtherKey == "note"
ValueOf(k) ==
  CASE k = "company_name" -> "Acme"
    [] k = "ceo_name" -> "Jane Doe"
    [] k = "summary" -> "..."
    [] OTHER -> "x"

\* The JSON objects the service may print: any subset of the three keys,
\* or an object with only a foreign key.
ObjKeySets == (SUBSET Keys) \cup { {OtherKey} }

\* Reply text as a token sequence: prose, a stray brace, or the text of one
\* well-formed JSON object {"k": "v", ...} over the given keys.
Tok(t, ks) == [ t |-> t, keys |-> ks ]
Tokens ==
  { Tok("w", {}), Tok("{", {}), Tok("}", {}) } \cup
  { Tok("obj", ks) : ks \in ObjKeySets }

Replies == SeqsUpTo(Tokens, MaxReplyLen)

Responses ==
  { [ kind |-> k, reply |-> <<>> ] :
      k \in { "transport_error", "http_error", "bad_envelope" } } \cup
  { [ kind |-> "ok", reply |-> r ] : r \in Replies }

\* ------------------------------------------------------- analyze_article
HasOpen(tok) == tok.t \in { "{", "obj" }
HasClose(tok) == tok.t \in { "}", "obj" }

\* re.search(r'\{.*\}', reply, re.DOTALL): from the first "{" to the last
\* "}" of the reply; None when no "}" follows a "{".
json_match(reply) ==
  LET opens == { j \in 1..Len(reply) : HasOpen(reply[j]) }
      closes == { j \in 1..Len(reply) : HasClose(reply[j]) }
  IN  IF opens = {} \/ closes = {} THEN None
      ELSE LET first == CHOOSE j \in opens : \A k \in opens : j <= k
               lastc == CHOOSE j \in closes : \A k \in closes : k <= j
           IN  IF lastc < first THEN None
               ELSE Some(SubSeq(reply, first, lastc))

\* json.loads(json_str): the dict, or None standing for JSONDecodeError
json_loads(json_str) ==
  IF Len(json_str) = 1 /\ json_str[1].t = "obj"
    THEN Some([ k \in json_str[1].keys |-> ValueOf(k) ])
  ELSE IF Len(json_str) = 2 /\ json_str[1].t = "{" /\ json_str[2].t = "}"
    THEN Some([ k \in {} |-> ValueOf(k) ])
  ELSE None

\* Which way the call of analyze_article goes for a given service response
AnalyzerMode(resp) ==
  IF resp.kind # "ok" THEN resp.kind
  ELSE IF json_match(resp.reply) = None THEN "no_span"
  ELSE IF json_loads(The(json_match(resp.reply))) = None THEN "malformed"
  ELSE "parsed"

\* analyze_article(body_text): the parsed dict, or None on every failure
analyze_article(body_text, resp) ==
  IF resp.kind # "ok" THEN None
  ELSE LET m == json_match(resp.reply)
       IN  IF m = None THEN None ELSE json_loads(The(m))

\* `if analysis:` -- None and the empty dict are both falsy
Truthy(analysis) == analysis # None /\ DOMAIN The(analysis) # {}

\* analysis.get(key, "")
dict_get(d, key) == IF key \in DOMAIN d THEN d[key] ELSE ""

\* ------------------------------------------------------------ the tables
NextId(rows) ==
  IF rows = {} THEN 1
  ELSE (CHOOSE n \in { r.id : r \in rows } :
          \A r \in rows : r.id <= n) + 1

\* models.py: Article.url is unique
ArticleConstraintsOK(arts, row) == \A a \in arts : a.url # row.url

\* models.py: AnalysisResult.article_id is unique
AnalysisConstraintsOK(ars, row) == \A r \in ars : r.article_id # row.article_id

Article(arts, url, title, pub_date, body_text) ==
  [ id |-> NextId(arts), url |-> url, title |-> title,
    publication_date |-> pub_date, body_text |-> body_text ]

AnalysisResult(ars, article_id, analysis) ==
  [ id |-> NextId(ars), article_id |-> article_id,
    company_name |-> dict_get(analysis, "company_name"),
    ceo_name |-> dict_get(analysis, "ceo_name"),
    summary |-> dict_get(analysis, "summary") ]

\* ----------------------------------------------------------- extraction
\* extract with the date made optional: a page without the date span gets
\* an empty publication date
extract_date_optional(html) ==
  IF html.h1 = None THEN None
  ELSE IF html.body = None THEN None
  ELSE LET paragraphs == The(html.body)
       IN  IF paragraphs = <<>> THEN None
           ELSE Some([ title |-> get_text(The(html.h1)),
                       pub_date |-> IF html.date = None THEN <<>>
                                    ELSE get_text(The(html.date)),
                       body_text |->
                         join(<<"\n\n">>,
                              [ j \in 1..Len(paragraphs) |->
                                  get_text(paragraphs[j]) ]) ])

\* 124-166: the three fields of the page, or None when a selector finds
\* nothing or the body container has no <p>
extract(html) ==
  IF html.h1 = None THEN None
  ELSE IF html.date = None THEN None
  ELSE IF html.body = None THEN None
  ELSE LET paragraphs == The(html.body)
       IN  IF paragraphs = <<>> THEN None
           ELSE Some([ title |-> get_text(The(html.h1)),
                       pub_date |-> get_text(The(html.date)),
                       body_text |->
                         join(<<"\n\n">>,
                              [ j \in 1..Len(paragraphs) |->
                                  get_text(paragraphs[j]) ]) ])

\* ------------------------------------------- fetch_and_store_article
\* What one call leaves behind: the tables, the session, the returned id
\* (NoId for None), whether an exception left the function, the number of
\* analyze_article calls with the text passed and the value returned, and
\* the commit that failed ("none", "article", "analysis").
Result(arts, ars, sess, ret, calls, arg, analysis, commit) ==
  [ arts |-> arts, ars |-> ars, sess |-> sess, ret |-> ret, raised |-> FALSE,
    calls |-> calls, arg |-> arg, analysis |-> analysis, commit |-> commit ]

\* on_fetch_error with only the HTTPError handler of 245: a transport error
\* leaves the function as an exception
on_fetch_error_uncaught(arts, ars, sess, fetch) ==
  [ Result(arts, ars, sess, NoId, 0, None, None, "none")
      EXCEPT !.raised = (fetch = "transport_error") ]

\* 119-120, 245-248: requests.get or raise_for_status raises; both handlers
\* log and fall off the end of the function
on_fetch_error(arts, ars, sess, fetch) ==
  Result(arts, ars, sess, NoId, 0, None, None, "none")

\* skip_analysis that refreshes the stored row from the page just fetched
skip_analysis_refresh(arts, ars, sess, existing_article, body_text) ==
  Result((arts \ {existing_article}) \cup
           { [ existing_article EXCEPT !.body_text = body_text ] },
         ars, sess, existing_article.id, 0, None, None, "none")

\* 175-176, 196: the analysis is there already
skip_analysis(arts, ars, sess, existing_article, body_text) ==
  Result(arts, ars, sess, existing_article.id, 0, None, None, "none")

\* analysis_failed that gives up on the url: returns None
analysis_failed_no_id(arts, ars, sess, article_id, body_text, analysis) ==
  Result(arts, ars, sess, NoId, 1, Some(body_text), analysis, "none")

\* 194-196 and 232-235: analyze_article returned a falsy value
analysis_failed(arts, ars, sess, article_id, body_text, analysis) ==
  Result(arts, ars, sess, article_id, 1, Some(body_text), analysis, "none")

\* existing_branch without the commit of 191: the AnalysisResult is added to
\* the session and never written
existing_branch_no_commit(arts, ars, sess, existing_article, body_text, resp, failR) ==
  LET existing_analysis ==
        { r \in ars : r.article_id = existing_article.id }
  IN  IF existing_analysis # {}
        THEN skip_analysis(arts, ars, sess, existing_article, body_text)
      ELSE
        LET analysis == analyze_article(body_text, resp)
        IN  IF Truthy(analysis)
              THEN Result(arts, ars, sess, existing_article.id, 1,
                          Some(body_text), analysis, "none")
            ELSE analysis_failed(arts, ars, sess, existing_article.id,
                                 body_text, analysis)

\* 171-199: an Article with this url exists
existing_branch(arts, ars, sess, existing_article, body_text, resp, failR) ==
  LET existing_analysis ==
        { r \in ars : r.article_id = existing_article.id }
  IN  IF existing_analysis # {}
        THEN skip_analysis(arts, ars, sess, existing_article, body_text)
      ELSE
        LET analysis == analyze_article(body_text, resp)
        IN  IF Truthy(analysis)
              THEN LET analysis_result ==
                         AnalysisResult(ars, existing_article.id, The(analysis))
                   IN  IF failR \/ ~AnalysisConstraintsOK(ars, analysis_result)
                         \* commit raises; the handler of 197-199 does not
                         \* roll back, so the session keeps its failed
                         \* transaction
                         THEN Result(arts, ars, "inactive", NoId, 1,
                                     Some(body_text), analysis, "analysis")
                       ELSE Result(arts, ars \cup {analysis_result}, sess,
                                   existing_article.id, 1, Some(body_text),
                                   analysis, "none")
            ELSE analysis_failed(arts, ars, sess, existing_article.id,
                                 body_text, analysis)

\* 214-243: the Article is committed (arts holds it)
after_article_commit(arts, ars, sess, article, body_text, resp, failR) ==
  LET analysis == analyze_article(body_text, resp)
  IN  IF Truthy(analysis)
        THEN LET analysis_result ==
                   AnalysisResult(ars, article.id, The(analysis))
             IN  IF failR \/ ~AnalysisConstraintsOK(ars, analysis_result)
                   \* 236-243: rollback, return None
                   THEN Result(arts, ars, "active", NoId, 1, Some(body_text),
                               analysis, "analysis")
                 ELSE Result(arts, ars \cup {analysis_result}, sess,
                             article.id, 1, Some(body_text), analysis, "none")
      ELSE analysis_failed(arts, ars, sess, article.id, body_text, analysis)

\* on_article_commit_error that only logs: the call goes on to the analysis
\* of an Article that was not written
on_article_commit_error_goes_on(arts, ars, sess, article, body_text, resp, failR) ==
  after_article_commit(arts, ars, "active", article, body_text, resp, failR)

\* 236-243 after the commit of 212 raised: rollback, return None
on_article_commit_error(arts, ars, sess, article, body_text, resp, failR) ==
  Result(arts, ars, "active", NoId, 0, None, None, "article")

\* 201-243: no Article with this url exists
new_branch(arts, ars, sess, url, fields, resp, failA, failR) ==
  LET article == Article(arts, url, fields.title, fields.pub_date,
                         fields.body_text)
  IN  IF failA \/ ~ArticleConstraintsOK(arts, article)
        THEN on_article_commit_error(arts, ars, sess, article,
                                     fields.body_text, resp, failR)
      ELSE after_article_commit(arts \cup {article}, ars, sess, article,
                                fields.body_text, resp, failR)

\* 110-248
fetch_and_store_article(arts, ars, sess, url, fetch, html, resp, failA, failR) ==
  IF fetch # "ok" THEN on_fetch_error(arts, ars, sess, fetch)
  ELSE IF extract(html) = None
    \* 132, 145, 160, 163: return
    THEN Result(arts, ars, sess, NoId, 0, None, None, "none")
  ELSE IF sess = "inactive"
    \* 170, 197-199: the query raises on a session whose transaction failed
    \* and was not rolled back
    THEN Result(arts, ars, sess, NoId, 0, None, None, "none")
  ELSE
    LET fields == The(extract(html))
        found == { a \in arts : a.url = url }
    IN  IF found # {}
          THEN existing_branch(arts, ars, sess, The(found), fields.body_text,
                               resp, failR)
        ELSE new_branch(arts, ars, sess, url, fields, resp, failA, failR)

\* ------------------------------------------------------- the environment
\* What the page served for a url lacks ("none": nothing)
Lacking(html) ==
  IF html.h1 = None THEN "h1"
  ELSE IF html.date = None THEN "date"
  ELSE IF html.body = None THEN "div"
  ELSE IF The(html.body) = <<>> THEN "p"
  ELSE "none"

\* Where a url stands in the tables: "unseen", "stored" (an Article without
\* AnalysisResult) or "analyzed"
UrlState(arts, ars, url) ==
  IF \A a \in arts : a.url # url THEN "unseen"
  ELSE IF \E a \in arts : a.url = url /\ \E r \in ars : r.article_id = a.id
    THEN "analyzed"
  ELSE "stored"

\* ------------------------------------------------------------ the driver
\* The record of the latest call: the url and where it stood before the
\* call, what the environment served, and what the call did
NoCall ==
  [ url |-> "", pre |-> "", page |-> "", mode |-> "", ret |-> NoId,
    calls |-> 0, arg |-> None, analysis |-> None, commit |-> "none" ]

Init ==
  /\ articles = {}
  /\ analysis_results = {}
  /\ session = "active"
  /\ i = 1
  /\ out = <<>>
  /\ last = NoCall
  /\ pc = "loop"

\* The environment answers only what the call asks of it: a page when the
\* fetch succeeds, a service response when analyze_article is called, a
\* commit outcome when a commit is attempted.
NoHtml == [ h1 |-> None, date |-> None, body |-> None ]
NoResponse == [ kind |-> "transport_error", reply |-> <<>> ]

HtmlsFor(fetch) == IF fetch = "ok" THEN Htmls ELSE {NoHtml}

ArticleCommitsFor(url, fetch, html) ==
  IF fetch = "ok" /\ Lacking(html) = "none" /\ session = "active"
       /\ UrlState(articles, analysis_results, url) = "unseen"
    THEN BOOLEAN ELSE {FALSE}

\* The program tells two responses apart only by what analyze_article makes
\* of them, so the service sends one response of each such kind.
ResponseKind(resp) ==
  [ mode |-> AnalyzerMode(resp), analysis |-> analyze_article(<<>>, resp) ]

ServedResponses ==
  { CHOOSE resp \in Responses : ResponseKind(resp) = k :
      k \in { ResponseKind(resp) : resp \in Responses } }

ResponsesFor(url, fetch, html, failA) ==
  IF fetch_and_store_article(articles, analysis_results, session, url, fetch,
                             html, NoResponse, failA, FALSE).calls > 0
    THEN ServedResponses ELSE {NoResponse}

AnalysisCommitsFor(url, fetch, html, resp, failA) ==
  IF fetch_and_store_article(articles, analysis_results, session, url, fetch,
                             html, resp, failA, TRUE).commit = "analysis"
    THEN BOOLEAN ELSE {FALSE}

\* 258-263: one iteration of the for loop
Iterate ==
  /\ pc = "loop"
  /\ i <= Len(article_urls)
  /\ LET url == article_urls[i] IN
     \E fetch \in Fetches : \E html \in HtmlsFor(fetch) :
     \E failA \in ArticleCommitsFor(url, fetch, html) :
     \E resp \in ResponsesFor(url, fetch, html, failA) :
     \E failR \in AnalysisCommitsFor(url, fetch, html, resp, failA) :
     \E r \in { fetch_and_store_article(articles, analysis_results, session,
                                         url, fetch, html, resp, failA, failR) } :
           /\ articles' = r.arts
           /\ analysis_results' = r.ars
           /\ session' = r.sess
           /\ last' = [ url |-> url,
                        pre |-> UrlState(articles, analysis_results, url),
                        page |-> IF fetch = "ok" THEN Lacking(html) ELSE fetch,
                        mode |-> IF r.calls > 0 THEN AnalyzerMode(resp) ELSE "",
                        ret |-> r.ret, calls |-> r.calls, arg |-> r.arg,
                        analysis |-> r.analysis, commit |-> r.commit ]
           /\ IF r.raised
                THEN /\ pc' = "crashed"
                     /\ UNCHANGED <<i, out>>
                ELSE /\ out' = Append(out, [ url |-> url, ok |-> r.ret # NoId ])
                     /\ i' = i + 1
                     /\ pc' = "loop"

\* The loop has run off the end of article_urls, the process exits, and the
\* script is started again on the same database file: 28-32 build a new
\* session, the tables persist
Rerun ==
  /\ pc = "loop"
  /\ i > Len(article_urls)
  /\ session' = "active"
  /\ i' = 1
  /\ out' = <<>>
  /\ last' = NoCall
  /\ pc' = "loop"
  /\ UNCHANGED <<articles, analysis_results>>

Next == Iterate \/ Rerun

Spec == Init /\ [][Next]_vars

TypeOK ==
  /\ session \in { "active", "inactive" }
  /\ i \in 1..(Len(article_urls) + 1)
  /\ pc \in { "loop", "crashed" }

\* ------------------------------------------------------------ properties
\* A step in which the driver called fetch_and_store_article
Called == pc = "loop" /\ (i' = i + 1 \/ pc' = "crashed")

ArticlesOf(arts, url) == { a \in arts : a.url = url }
AnalysesOf(ars, a) == { r \in ars : r.article_id = a.id }
ExtractionFailures == { "h1", "date", "div", "p" }
AnalyzerFailures ==
  { "transport_error", "http_error", "no_span", "malformed" }

\* C1 (as claimed): a call for a url that has its Article and its
\* AnalysisResult leaves both tables as they were, does not call the
\* analyzer and returns the id of the existing Article, whatever the fetch
\* and the extraction of this call produce.
C1_RerunIsNoOp ==
  [][ Called /\ UrlState(articles, analysis_results, article_urls[i]) = "analyzed"
        => /\ articles' = articles
           /\ analysis_results' = analysis_results
           /\ last'.calls = 0
           /\ \E a \in ArticlesOf(articles, article_urls[i]) : last'.ret = a.id
    ]_vars

C3_ExtractionFailureStoresNothing ==
  [][ Called /\ last'.page \in ExtractionFailures
        => /\ articles' = articles
           /\ analysis_results' = analysis_results
           /\ last'.calls = 0
           /\ last'.ret = NoId
           /\ out' = Append(out, [ url |-> article_urls[i], ok |-> FALSE ])
    ]_vars

\* The driver printed the failure line for a url, not stored before, whose
\* page has the body container without any <p>.
C3_Witness ==
  /\ last.page = "p"
  /\ last.pre = "unseen"
  /\ out # <<>>
  /\ ~out[Len(out)].ok

\* C4: for a url not stored yet whose fetch and extraction succeed, when the
\* analyzer fails (transport error, HTTP error status, no {...} span,
\* malformed JSON in the span) the call has committed the Article, adds no
\* AnalysisResult and returns the new Article's id.
C4_AnalysisFailureKeepsArticle ==
  [][ ( /\ Called
        /\ UrlState(articles, analysis_results, article_urls[i]) = "unseen"
        /\ last'.page = "none"
        /\ last'.mode \in AnalyzerFailures )
        => /\ analysis_results' = analysis_results
           /\ \E a \in articles' \ articles :
                /\ articles' = articles \cup {a}
                /\ a.url = article_urls[i]
                /\ last'.ret = a.id
           /\ UrlState(articles', analysis_results', article_urls[i]) = "stored"
    ]_vars

\* A new Article was stored by a call whose analyzer reply held malformed
\* JSON.
C4_Witness ==
  /\ last.pre = "unseen"
  /\ last.mode = "malformed"
  /\ last.ret # NoId
  /\ UrlState(articles, analysis_results, last.url) = "stored"

\* C5: every AnalysisResult references an Article that exists, and no
\* Article is referenced by two AnalysisResults.
C5_OneToOne ==
  /\ \A r \in analysis_results : \E a \in articles : a.id = r.article_id
  /\ \A a \in articles : Cardinality(AnalysesOf(analysis_results, a)) <= 1

\* After a failed commit: one Article with its AnalysisResult, another
\* without.
C5_Witness ==
  /\ last.commit # "none"
  /\ \E a \in articles : AnalysesOf(analysis_results, a) # {}
  /\ \E a \in articles : AnalysesOf(analysis_results, a) = {}

\* C6 (as claimed): when a commit of the call failed, the call returned no
\* id and left the session rolled back, fit for the next url.
C6_RollbackOnCommitFailure ==
  last.commit # "none" => last.ret = NoId /\ session = "active"

\* C7: the driver calls fetch_and_store_article once per url, in list
\* order, printing one line per url that says success exactly when the call
\* returned an id; no call stops the loop: while urls remain the next call
\* can be made, so the loop reaches the end of the list.
C7_DriverCoversList ==
  /\ [](/\ pc = "loop"
        /\ Len(out) = i - 1
        /\ \A k \in 1..Len(out) : out[k].url = article_urls[k]
        /\ i <= Len(article_urls) => ENABLED Iterate)
  /\ [][ i' # i =>
           \/ /\ i' = i + 1
              /\ last'.url = article_urls[i]
              /\ out' = Append(out, [ url |-> article_urls[i],
                                      ok |-> last'.ret # NoId ])
           \/ i = Len(article_urls) + 1 /\ i' = 1
       ]_vars

\* The loop reached the end of the list after the first url failed and the
\* second succeeded.
C7_Witness ==
  /\ i = Len(article_urls) + 1
  /\ Len(out) = 2
  /\ ~out[1].ok
  /\ out[2].ok

\* C8: no two Article rows share a url, and a row, once there, stays as it
\* is: never changed, never removed.
C8_ArticlesAreStable ==
  /\ [](\A a, b \in articles : a.url = b.url => a = b)
  /\ [][articles \subseteq articles']_vars

\* A later call for a stored url fetched a body that differs from the
\* stored one.
C8_Witness ==
  /\ last.pre # "unseen"
  /\ last.arg # None
  /\ \E a \in ArticlesOf(articles, last.url) : last.arg # Some(a.body_text)

\* C9 (as claimed): when the call finds an Article without AnalysisResult,
\* the text passed to analyze_article is the Article's stored body text.
C9_AnalyzesStoredBody ==
  last.pre = "stored" /\ last.calls > 0
    => \E a \in ArticlesOf(articles, last.url) : last.arg = Some(a.body_text)

\* C10 (as claimed): whenever the reply holds a well-formed JSON object and
\* no commit fails, the call inserts an AnalysisResult whose fields are the
\* object's values, the empty string for each key the object omits.
C10_ObjectIsSuccess ==
  [][ Called /\ last'.mode = "parsed" /\ last'.commit = "none"
        => \E r \in analysis_results' \ analysis_results :
             \E d \in last'.analysis :
               /\ r.company_name = dict_get(d, "company_name")
               /\ r.ceo_name = dict_get(d, "ceo_name")
               /\ r.summary = dict_get(d, "summary")
    ]_vars

====
